---- MODULE Spec2Model ----
(***************************************************************************)
(* A state-machine model of                                                *)
(*   src/fpd_data_processing/lazy_tools.py                                 *)
(*       _get_dask_chunk_slice_list, _calculate_function_on_dask_array     *)
(*   src/pyxem/utils/pdf_utils.py                                          *)
(*       damp_ri_low_q_region_erfc, scattering_to_signal_lobato,           *)
(*       scattering_to_signal_xtables                                      *)
(* One behaviour is one call: Init draws the function called and its       *)
(* arguments, the actions are the statements of that function, and the     *)
(* call ends in pc = "done" (a value was returned) or pc = "raised" (an    *)
(* exception left the function).                                           *)
(*                                                                         *)
(* Python indices are 0-based; sequences here are 1-based, so the Python   *)
(* list element l[j] is l[j + 1] below.  Navigation coordinates, slice     *)
(* bounds and frame offsets keep their 0-based Python values.              *)
(***************************************************************************)
EXTENDS Integers, Sequences, FiniteSets, TLC

\* Largest extent of one navigation dimension of the arrays drawn by Init.
MaxNav == 3
\* Largest array rank drawn by Init (ranks 0 .. MaxRank).
MaxRank == 5
\* Largest s_size drawn for the pdf_utils calls.
MaxSSize == 2

\* Python's None, and the value of every variable the call does not use.
None == [type |-> "NoneType"]
\* exc while no exception has been raised.
NoException == "no exception"

VARIABLES
    op,               \* the function called
    pc,               \* position in that function
    exc,              \* the exception that left the function, or NoException
    result,           \* the value returned, or None
    \* ---- lazy_tools: arguments
    dask_array,       \* [chunks |-> per-dimension chunk-size lists]
    function,         \* the per-frame callable (by name)
    func_args,        \* None or a keyword dictionary
    return_sig_size,
    show_progressbar,
    \* ---- lazy_tools: locals of _calculate_function_on_dask_array
    return_data,      \* None until allocated; then an array, coordinate -> value
    slice_list,
    tqdm_bar,         \* None until tqdm(slice_list) is built; then [n, total]
    slice_iter,       \* number of windows the for loop of line 93 has yielded
    slice_chunk,
    data_slice,       \* None, a lazy sub-array or a materialized chunk
    im_slice_list,
    im_iter,          \* number of frames the loop of line 101/113 has yielded
    im_slice,
    im,               \* None or a view of one frame of a materialized chunk
    out_data,
    \* ---- lazy_tools: history of the run
    materialized,     \* windows whose compute() has run, in order
    calls,            \* navigation coordinates whose frame was passed to function
    writes,           \* coordinates of return_data that were assigned, in order
    \* ---- pdf_utils: arguments and locals
    z, scale, offset, s_scale, s_size,
    scattering_axis,
    elements, fracs, N, C,
    params

lazyArgs == <<dask_array, function, func_args, return_sig_size, show_progressbar>>
lazyLocals == <<return_data, slice_list, tqdm_bar, slice_iter, slice_chunk,
                data_slice, im_slice_list, im_iter, im_slice, im, out_data>>
lazyHist == <<materialized, calls, writes>>
pdfArgs == <<z, scale, offset, s_scale, s_size, elements, fracs, N, C>>
pdfLocals == <<scattering_axis, params>>
vars == <<op, pc, exc, result, lazyArgs, lazyLocals, lazyHist, pdfArgs, pdfLocals>>

(***************************************************************************)
(* Python values                                                           *)
(***************************************************************************)
\* slice(start, stop); np.s_[a:b] builds it, `:` is slice(None, None).
Slice(start, stop) == [type |-> "slice", start |-> start, stop |-> stop]
FullSlice == Slice(None, None)
\* A tuple, which np.s_[...] returns whenever the index has a comma.
Tuple(items) == [type |-> "tuple", items |-> items]

\* obj.start: slice objects have the attribute, tuples do not.
HasStart(obj) == obj.type = "slice"

RECURSIVE SumSeq(_)
SumSeq(s) == IF s = <<>> THEN 0 ELSE Head(s) + SumSeq(Tail(s))

\* s[:-2]
DropLast2(s) == SubSeq(s, 1, Len(s) - 2)

(***************************************************************************)
(* The chunked array.  dask_array.chunks holds one chunk-size list per     *)
(* dimension; dask_array.shape is the sum of each list.  The frame stored  *)
(* at a navigation coordinate is modelled by one integer, different at     *)
(* every coordinate.                                                       *)
(***************************************************************************)
Shape(arr) == [d \in 1..Len(arr.chunks) |-> SumSeq(arr.chunks[d])]
Rank(arr) == Len(Shape(arr))
NavShape(arr) == DropLast2(Shape(arr))

FrameAt(coord) ==
    IF Len(coord) = 1 THEN 1 + coord[1]
    ELSE 1 + coord[1] + 10 * coord[2]

\* All index tuples of an array of the given shape (np.ndindex).
RECURSIVE NdIndex(_)
NdIndex(shape) ==
    IF shape = <<>> THEN {<<>>}
    ELSE {<<i>> \o t : i \in 0..(Head(shape) - 1), t \in NdIndex(Tail(shape))}

(***************************************************************************)
(* _get_dask_chunk_slice_list (lazy_tools.py, lines 5-49)                  *)
(***************************************************************************)
\* line 25: the ranks the mapper refuses
MapperRankUnsupported(rank) == (rank = 2) \/ (rank > 4)

\* BoundaryPairs without line 34: the running offset is never advanced
RECURSIVE BoundaryPairsNoAdvance(_, _)
BoundaryPairsNoAdvance(chunk_list, current_v) ==
    IF chunk_list = <<>> THEN <<>>
    ELSE <<<<current_v, current_v + Head(chunk_list)>>>>
         \o BoundaryPairsNoAdvance(Tail(chunk_list), current_v)

\* lines 31-34: the (current_v, current_v + chunk) pairs of one chunk list
RECURSIVE BoundaryPairs(_, _)
BoundaryPairs(chunk_list, current_v) ==
    IF chunk_list = <<>> THEN <<>>
    ELSE <<<<current_v, current_v + Head(chunk_list)>>>>
         \o BoundaryPairs(Tail(chunk_list), current_v + Head(chunk_list))

\* lines 28-35: one list of pairs per navigation dimension (chunks[:-2])
TempSliceList(arr) ==
    LET nav == DropLast2(arr.chunks)
    IN  [d \in 1..Len(nav) |-> BoundaryPairs(nav[d], 0)]

\* lines 39-41
RECURSIVE SliceList1D(_)
SliceList1D(pairs) ==
    IF pairs = <<>> THEN <<>>
    ELSE <<Tuple(<<Slice(Head(pairs)[1], Head(pairs)[2]), FullSlice, FullSlice>>)>>
         \o SliceList1D(Tail(pairs))

\* lines 44-48: the inner loop, for one slice_t0
RECURSIVE InnerSlices(_, _)
InnerSlices(slice_t0, pairs1) ==
    IF pairs1 = <<>> THEN <<>>
    ELSE <<Tuple(<<Slice(slice_t0[1], slice_t0[2]),
                   Slice(Head(pairs1)[1], Head(pairs1)[2]),
                   FullSlice, FullSlice>>)>>
         \o InnerSlices(slice_t0, Tail(pairs1))

\* SliceList2D with the loops of lines 43 and 44 exchanged: the second
\* navigation axis is the outer loop
RECURSIVE SliceList2DInnerAxisFirst(_, _)
SliceList2DInnerAxisFirst(pairs0, pairs1) ==
    IF pairs1 = <<>> THEN <<>>
    ELSE [j \in 1..Len(pairs0) |->
             Tuple(<<Slice(pairs0[j][1], pairs0[j][2]),
                     Slice(Head(pairs1)[1], Head(pairs1)[2]),
                     FullSlice, FullSlice>>)]
         \o SliceList2DInnerAxisFirst(pairs0, Tail(pairs1))

\* lines 43-48: the outer loop
RECURSIVE SliceList2D(_, _)
SliceList2D(pairs0, pairs1) ==
    IF pairs0 = <<>> THEN <<>>
    ELSE InnerSlices(Head(pairs0), pairs1) \o SliceList2D(Tail(pairs0), pairs1)

\* lines 24-49: the whole function; [exc, value] is how the call ends
get_dask_chunk_slice_list(arr) ==
    LET chunk_list_dim == Shape(arr)
        temp_slice_list == TempSliceList(arr)
    IN  IF MapperRankUnsupported(Len(chunk_list_dim))
        THEN [exc |-> "NotImplementedError", value |-> None]
        ELSE [exc |-> NoException,
              value |-> IF Len(temp_slice_list) = 1
                        THEN SliceList1D(temp_slice_list[1])
                        ELSE IF Len(temp_slice_list) = 2
                        THEN SliceList2D(temp_slice_list[1], temp_slice_list[2])
                        ELSE <<>>]

(***************************************************************************)
(* _calculate_function_on_dask_array (lazy_tools.py, lines 52-122):        *)
(* helpers                                                                 *)
(***************************************************************************)
\* The check of line 83 without its first disjunct
DriverRankOnlyAbove4(rank) == rank > 4

\* line 83: the ranks the driver refuses
DriverRankUnsupported(rank) == (rank = 2) \/ (rank > 4)

\* lines 88-91: np.zeros of the navigation shape, with a trailing axis of
\* return_sig_size entries unless return_sig_size is 1
ZeroCell(sig_size) == IF sig_size = 1 THEN 0 ELSE [c \in 1..sig_size |-> 0]
NdArray(data) == [type |-> "ndarray", data |-> data]
Zeros(nav_shape, sig_size) ==
    NdArray([coord \in NdIndex(nav_shape) |-> ZeroCell(sig_size)])

\* The per-frame callables drawn by Init.  "frame_sum" and "frame_neg"
\* return a scalar, "center_of_mass" a vector of two entries.
ScalarFunctions == {"frame_sum", "frame_neg"}
VectorFunctions == {"center_of_mass"}
Functions == ScalarFunctions \cup VectorFunctions

\* lines 86-87 and function(im, **func_args)
KwOffset(args) == IF args = None THEN 0 ELSE args.offset
ApplyFunction(f, frame, args) ==
    CASE f = "frame_sum" -> frame + KwOffset(args)
      [] f = "frame_neg" -> KwOffset(args) - frame
      [] f = "center_of_mass" -> <<frame + KwOffset(args), 2 * frame>>

\* data_slice.shape[:-2] of the chunk cut by a window (lines 94-97)
WindowNavSlices(window) == DropLast2(window.items)
DataSliceShape(window) ==
    [d \in 1..Len(WindowNavSlices(window)) |->
        WindowNavSlices(window)[d].stop - WindowNavSlices(window)[d].start]

\* lines 99-100: np.s_[im_slice0, :, :] for im_slice0 in range(n0)
ImSliceList1D(n0) == [i \in 1..n0 |-> Tuple(<<i - 1, FullSlice, FullSlice>>)]

\* lines 110-112: np.s_[im_slice0, im_slice1, :, :], im_slice1 innermost
ImSliceList2D(n0, n1) ==
    [i \in 1..(n0 * n1) |->
        Tuple(<<(i - 1) \div n1, (i - 1) % n1, FullSlice, FullSlice>>)]

\* data_slice[im_slice] (lines 102, 114): the frame of the chunked array
\* that lies at the local offset inside the window the chunk was cut by
ChunkFrame(chunk, local) ==
    LET nav == WindowNavSlices(chunk.window)
    IN  FrameAt([d \in 1..Len(nav) |-> nav[d].start + local.items[d]])

\* lines 115-116 without the window's starting offsets
GlobalIndex2DLocalOnly(window, local) == <<local.items[1], local.items[2]>>

\* lines 115-116
GlobalIndex2D(window, local) ==
    <<window.items[1].start + local.items[1],
      window.items[2].start + local.items[2]>>

\* line 103 (taken only when slice_chunk has a start attribute)
GlobalIndex1D(window, local) == <<window.start + local.items[1]>>

\* lines 105-108, 118-121: what numpy stores for return_data[i] = out_data
\* (scalar cell) or return_data[i, :] = out_data (row of sig_size entries)
IsVector(f) == f \in VectorFunctions
\* a vector of two entries fits neither a scalar cell nor a row of another
\* length: numpy raises ValueError
StoreRaises(f, sig_size) == IsVector(f) /\ sig_size # 2
Stored(f, value, sig_size) ==
    IF sig_size = 1 THEN value
    ELSE IF IsVector(f) THEN value
    ELSE [c \in 1..sig_size |-> value]

(***************************************************************************)
(* Arguments drawn by Init                                                 *)
(***************************************************************************)
\* The ways to split an extent of n into chunks of at least one index.
RECURSIVE Compositions(_)
Compositions(n) ==
    IF n = 0 THEN {<<>>}
    ELSE UNION {{<<c>> \o t : t \in Compositions(n - c)} : c \in 1..n}

ChunkLists == UNION {Compositions(n) : n \in 1..MaxNav}

\* The two signal dimensions are never chunked.
SignalChunks == <<2>>

\* The arrays of one rank: the navigation dimensions of a rank-3 or rank-4
\* array take every chunking; the other ranks are one array each.
ArraysOfRank(rank) ==
    IF rank = 3 THEN {[chunks |-> <<c0, SignalChunks, SignalChunks>>] : c0 \in ChunkLists}
    ELSE IF rank = 4
    THEN {[chunks |-> <<c0, c1, SignalChunks, SignalChunks>>] :
              c0 \in ChunkLists, c1 \in ChunkLists}
    ELSE {[chunks |-> [d \in 1..rank |-> SignalChunks]]}

Arrays == UNION {ArraysOfRank(rank) : rank \in 0..MaxRank}

FuncArgs == {None, [type |-> "dict", offset |-> 5]}

InitLazyLocals ==
    /\ return_data = None /\ slice_list = None /\ tqdm_bar = None
    /\ slice_iter = 0 /\ slice_chunk = None /\ data_slice = None
    /\ im_slice_list = None /\ im_iter = 0 /\ im_slice = None
    /\ im = None /\ out_data = None
    /\ materialized = <<>> /\ calls = <<>> /\ writes = <<>>

NoPdf ==
    /\ z = None /\ scale = None /\ offset = None /\ s_scale = None
    /\ s_size = None /\ elements = None /\ fracs = None /\ N = None
    /\ C = None /\ scattering_axis = None /\ params = None

InitCalculate ==
    /\ op = "calculate"
    /\ dask_array \in Arrays
    /\ function \in Functions
    /\ func_args \in FuncArgs
    /\ return_sig_size \in {1, 2}
    /\ show_progressbar \in BOOLEAN
    /\ InitLazyLocals /\ NoPdf

InitSliceList ==
    /\ op = "slice_list"
    /\ dask_array \in Arrays
    /\ function = None /\ func_args = None /\ return_sig_size = None
    /\ show_progressbar = None
    /\ InitLazyLocals /\ NoPdf

(***************************************************************************)
(* How a call ends                                                         *)
(***************************************************************************)
Raise(e) == pc' = "raised" /\ exc' = e /\ result' = None
Return(v) == pc' = "done" /\ exc' = NoException /\ result' = v
Goto(l) == pc' = l /\ UNCHANGED <<exc, result>>

(***************************************************************************)
(* _get_dask_chunk_slice_list called on its own                            *)
(***************************************************************************)
MapperRun ==
    /\ op = "slice_list" /\ pc = "call"
    /\ LET r == get_dask_chunk_slice_list(dask_array)
       IN  IF r.exc # NoException THEN Raise(r.exc) ELSE Return(r.value)
    /\ UNCHANGED <<op, lazyArgs, lazyLocals, lazyHist, pdfArgs, pdfLocals>>

(***************************************************************************)
(* _calculate_function_on_dask_array, statement by statement               *)
(***************************************************************************)
\* lines 83-85
DriverCheckRank ==
    /\ op = "calculate" /\ pc = "call"
    /\ IF DriverRankUnsupported(Rank(dask_array))
       THEN Raise("NotImplementedError")
       ELSE Goto("L86")
    /\ UNCHANGED <<op, lazyArgs, lazyLocals, lazyHist, pdfArgs, pdfLocals>>

\* lines 86-91 (a func_args of None becomes the empty dictionary, which
\* KwOffset reads as no keyword)
Allocate ==
    /\ op = "calculate" /\ pc = "L86"
    /\ return_data' = Zeros(NavShape(dask_array), return_sig_size)
    /\ Goto("L92")
    /\ UNCHANGED <<op, lazyArgs, slice_list, tqdm_bar, slice_iter, slice_chunk,
                   data_slice, im_slice_list, im_iter, im_slice, im, out_data,
                   lazyHist, pdfArgs, pdfLocals>>

\* line 92
GetSliceList ==
    /\ op = "calculate" /\ pc = "L92"
    /\ LET r == get_dask_chunk_slice_list(dask_array)
       IN  IF r.exc # NoException
           THEN Raise(r.exc) /\ UNCHANGED slice_list
           ELSE slice_list' = r.value /\ Goto("L93")
    /\ UNCHANGED <<op, lazyArgs, return_data, tqdm_bar, slice_iter, slice_chunk,
                   data_slice, im_slice_list, im_iter, im_slice, im, out_data,
                   lazyHist, pdfArgs, pdfLocals>>

\* line 93, tqdm(slice_list): the progress display is built, whatever
\* show_progressbar holds
TqdmCreate ==
    /\ op = "calculate" /\ pc = "L93"
    /\ tqdm_bar' = [n |-> 0, total |-> Len(slice_list)]
    /\ Goto("L93_next")
    /\ UNCHANGED <<op, lazyArgs, return_data, slice_list, slice_iter, slice_chunk,
                   data_slice, im_slice_list, im_iter, im_slice, im, out_data,
                   lazyHist, pdfArgs, pdfLocals>>

\* line 93, one turn of the for loop: tqdm counts the window whose body has
\* just ended, then yields the next window or ends the loop
ForSliceChunk ==
    /\ op = "calculate" /\ pc = "L93_next"
    /\ tqdm_bar' = IF slice_iter > 0 THEN [tqdm_bar EXCEPT !.n = @ + 1] ELSE tqdm_bar
    /\ IF slice_iter < Len(slice_list)
       THEN /\ slice_iter' = slice_iter + 1
            /\ slice_chunk' = slice_list[slice_iter + 1]
            /\ Goto("L94")
       ELSE /\ UNCHANGED <<slice_iter, slice_chunk>>
            /\ Goto("L122")
    /\ UNCHANGED <<op, lazyArgs, return_data, slice_list,
                   data_slice, im_slice_list, im_iter, im_slice, im, out_data,
                   lazyHist, pdfArgs, pdfLocals>>

\* line 94: a lazy sub-array; the name data_slice lets go of the last chunk
SliceLazy ==
    /\ op = "calculate" /\ pc = "L94"
    /\ data_slice' = [kind |-> "dask", window |-> slice_chunk]
    /\ Goto("L95")
    /\ UNCHANGED <<op, lazyArgs, return_data, slice_list, tqdm_bar, slice_iter,
                   slice_chunk, im_slice_list, im_iter, im_slice, im, out_data,
                   lazyHist, pdfArgs, pdfLocals>>

\* line 95: the chunk is materialized
Compute ==
    /\ op = "calculate" /\ pc = "L95"
    /\ data_slice' = [kind |-> "ndarray", window |-> data_slice.window]
    /\ materialized' = Append(materialized, data_slice.window)
    /\ Goto("L96")
    /\ UNCHANGED <<op, lazyArgs, return_data, slice_list, tqdm_bar, slice_iter,
                   slice_chunk, im_slice_list, im_iter, im_slice, im, out_data,
                   calls, writes, pdfArgs, pdfLocals>>

\* lines 96-100 and 109-112
BuildImSliceList ==
    /\ op = "calculate" /\ pc = "L96"
    /\ LET data_slice_shape == DataSliceShape(data_slice.window)
       IN  im_slice_list' =
               IF Len(data_slice_shape) = 1
               THEN ImSliceList1D(data_slice_shape[1])
               ELSE IF Len(data_slice_shape) = 2
               THEN ImSliceList2D(data_slice_shape[1], data_slice_shape[2])
               ELSE <<>>
    /\ im_iter' = 0
    /\ Goto("L101")
    /\ UNCHANGED <<op, lazyArgs, return_data, slice_list, tqdm_bar, slice_iter,
                   slice_chunk, data_slice, im_slice, im, out_data,
                   lazyHist, pdfArgs, pdfLocals>>

\* lines 101 and 113: one turn of the loop over the frames of the chunk
ForImSlice ==
    /\ op = "calculate" /\ pc = "L101"
    /\ IF im_iter < Len(im_slice_list)
       THEN /\ im_iter' = im_iter + 1
            /\ im_slice' = im_slice_list[im_iter + 1]
            /\ Goto("L102")
       ELSE /\ UNCHANGED <<im_iter, im_slice>>
            /\ Goto("L93_next")
    /\ UNCHANGED <<op, lazyArgs, return_data, slice_list, tqdm_bar, slice_iter,
                   slice_chunk, data_slice, im_slice_list, im, out_data,
                   lazyHist, pdfArgs, pdfLocals>>

\* im = data_slice[im_slice]: a view, whose base is the materialized chunk
FrameView == [base |-> data_slice.window, frame |-> ChunkFrame(data_slice, im_slice)]

\* lines 104-108 and 117-121, for the global coordinate i
CallAndStore(i) ==
    LET v == ApplyFunction(function, FrameView.frame, func_args)
    IN  /\ out_data' = v
        /\ calls' = Append(calls, i)
        /\ IF StoreRaises(function, return_sig_size)
           THEN Raise("ValueError") /\ UNCHANGED <<return_data, writes>>
           ELSE /\ return_data' =
                       [return_data EXCEPT !.data[i] = Stored(function, v, return_sig_size)]
                /\ writes' = Append(writes, i)
                /\ Goto("L101")

\* lines 102-108: slice_chunk is the tuple np.s_[a:b, :, :], so reading
\* slice_chunk.start raises AttributeError
FrameBody1D ==
    /\ op = "calculate" /\ pc = "L102"
    /\ Len(DataSliceShape(data_slice.window)) = 1
    /\ im' = FrameView
    /\ IF HasStart(slice_chunk)
       THEN CallAndStore(GlobalIndex1D(slice_chunk, im_slice))
       ELSE Raise("AttributeError") /\ UNCHANGED <<out_data, calls, writes, return_data>>
    /\ UNCHANGED <<op, lazyArgs, slice_list, tqdm_bar, slice_iter, slice_chunk,
                   data_slice, im_slice_list, im_iter, im_slice,
                   materialized, pdfArgs, pdfLocals>>

\* lines 114-121
FrameBody2D ==
    /\ op = "calculate" /\ pc = "L102"
    /\ Len(DataSliceShape(data_slice.window)) = 2
    /\ im' = FrameView
    /\ CallAndStore(GlobalIndex2D(slice_chunk, im_slice))
    /\ UNCHANGED <<op, lazyArgs, slice_list, tqdm_bar, slice_iter, slice_chunk,
                   data_slice, im_slice_list, im_iter, im_slice,
                   materialized, pdfArgs, pdfLocals>>

\* line 122
DriverReturn ==
    /\ op = "calculate" /\ pc = "L122"
    /\ Return(return_data)
    /\ UNCHANGED <<op, lazyArgs, lazyLocals, lazyHist, pdfArgs, pdfLocals>>

(***************************************************************************)
(* pdf_utils.py.  Floats are fixed-point numbers in thousandths: a float   *)
(* v is the integer 1000 * v, and the arguments drawn by Init are whole    *)
(* numbers.                                                                *)
(***************************************************************************)
\* The names bound in the module's namespace when a function of pdf_utils
\* runs: the import of line 19 and the eight functions the file defines.
PdfUtilsGlobals ==
    {"np", "normalise_pdf_signal_to_max", "mask_from_pattern",
     "scattering_to_signal_lobato", "scattering_to_signal_xtables",
     "damp_ri_exponential", "damp_ri_lorch", "damp_ri_updated_lorch",
     "damp_ri_low_q_region_erfc"}

\* Reading a global name: a name that is not bound raises NameError.
IsBound(name) == name \in PdfUtilsGlobals
PdfUtilsNamespace == [name \in PdfUtilsGlobals |-> [type |-> "object", name |-> name]]
GlobalValue(name) == PdfUtilsNamespace[name]

\* erf of a whole number, in thousandths
ErfMilli(t) ==
    CASE t <= -3 -> -1000
      [] t = -2 -> -995
      [] t = -1 -> -843
      [] t = 0 -> 0
      [] t = 1 -> 843
      [] t = 2 -> 995
      [] t >= 3 -> 1000

\* exp(-t) of a whole number t >= 0, in thousandths
ExpNegMilli(t) ==
    CASE t = 0 -> 1000
      [] t = 1 -> 368
      [] t = 2 -> 135
      [] t = 3 -> 50
      [] t = 4 -> 18
      [] t = 5 -> 7
      [] t = 6 -> 2
      [] t >= 7 -> 0

\* lines 98, 150, 186, 213, 246, 282: s_scale * np.arange(s_size)
ScatteringAxis(size, step) == [k \in 1..size |-> step * (k - 1)]

\* line 284: (erf(scattering_axis * scale - offset) + 1) / 2
ErfcDampingTerm(axis, sc, off) ==
    [k \in 1..Len(axis) |-> (ErfMilli(axis[k] * sc - off) + 1000) \div 2]

\* line 285: z * damping_term, elementwise
Times(a, b) == [k \in 1..Len(a) |-> a[k] * b[k]]

\* lines 103-105: one term of the Lobato curve at x, for the pair p = (a, b)
LobatoTerm(p, x) ==
    (p[1] * (2 + p[2] * (2 * x) * (2 * x)) * 1000)
        \div ((1 + p[2] * (2 * x) * (2 * x)) * (1 + p[2] * (2 * x) * (2 * x)))

\* line 155: one term of the International-Tables curve at x
XTablesTerm(p, x) == p[1] * ExpNegMilli(p[2] * x * x)

RECURSIVE SumTerms(_, _, _)
SumTerms(variant, element, x) ==
    IF element = <<>> THEN 0
    ELSE (IF variant = "lobato" THEN LobatoTerm(Head(element), x)
          ELSE XTablesTerm(Head(element), x))
         + SumTerms(variant, Tail(element), x)

\* lines 101-105, 153-155: fi, the base curve of one element
BaseCurve(variant, element, x) == [k \in 1..Len(x) |-> SumTerms(variant, element, x[k])]

\* lines 100-108, 152-158: the two accumulators over the elements i..
RECURSIVE SumSquares(_, _, _, _, _)
SumSquares(variant, ps, fr, x, i) ==
    IF i > Len(ps) THEN [k \in 1..Len(x) |-> 0]
    ELSE LET fi == BaseCurve(variant, ps[i], x)
             rest == SumSquares(variant, ps, fr, x, i + 1)
         IN  [k \in 1..Len(x) |-> (((fi[k] * fi[k]) \div 1000) * fr[i]) \div 1000 + rest[k]]

RECURSIVE SquareSum(_, _, _, _, _)
SquareSum(variant, ps, fr, x, i) ==
    IF i > Len(ps) THEN [k \in 1..Len(x) |-> 0]
    ELSE LET fi == BaseCurve(variant, ps[i], x)
             rest == SquareSum(variant, ps, fr, x, i + 1)
         IN  [k \in 1..Len(x) |-> (fi[k] * fr[i]) \div 1000 + rest[k]]

\* lines 110 and 160: N.reshape(x, y, 1) * sum_squares + C.reshape(x, y, 1)
BroadcastSignal(n, c, curve) ==
    [gx \in 1..Len(n) |-> [gy \in 1..Len(n[gx]) |->
        [k \in 1..Len(curve) |-> n[gx][gy] * curve[k] + 1000 * c[gx][gy]]]]

\* lines 111 and 161: N.reshape(x, y, 1) * square_sum
BroadcastSum(n, curve) ==
    [gx \in 1..Len(n) |-> [gy \in 1..Len(n[gx]) |->
        [k \in 1..Len(curve) |-> n[gx][gy] * curve[k]]]]

\* The table each variant reads (lines 90 and 142)
TableName(variant) ==
    IF variant = "lobato" THEN "ATOMIC_SCATTERING_PARAMS_LOBATO"
    ELSE "ATOMIC_SCATTERING_PARAMS"

Grid(x_size, y_size, v) == [gx \in 1..x_size |-> [gy \in 1..y_size |-> v]]
GridShapes == {<<1, 1>>, <<1, 2>>, <<2, 2>>}
Compositions2 == {<<>>, <<"Cu">>, <<"Cu", "Zr">>}
FracsOf(elems) ==
    IF Len(elems) = 0 THEN <<>>
    ELSE IF Len(elems) = 1 THEN <<1000>> ELSE <<500, 500>>

NoLazy ==
    /\ dask_array = None /\ function = None /\ func_args = None
    /\ return_sig_size = None /\ show_progressbar = None
    /\ InitLazyLocals

InitErfc ==
    /\ op = "erfc"
    /\ s_size \in 1..MaxSSize
    /\ z \in [1..s_size -> {-1, 2}]
    /\ scale \in {1, 2}
    /\ offset \in {0, 1}
    /\ s_scale \in {1, 2}
    /\ elements = None /\ fracs = None /\ N = None /\ C = None
    /\ scattering_axis = None /\ params = None
    /\ NoLazy

InitScattering ==
    /\ op \in {"lobato", "xtables"}
    /\ elements \in Compositions2
    /\ fracs = FracsOf(elements)
    /\ \E g \in GridShapes, nv \in {1, 2}, cv \in {0, 1} :
          /\ N = Grid(g[1], g[2], nv)
          /\ C = Grid(g[1], g[2], cv)
    /\ s_size \in 1..MaxSSize
    /\ s_scale \in {1, 2}
    /\ z = None /\ scale = None /\ offset = None
    /\ scattering_axis = None /\ params = None
    /\ NoLazy

\* damp_ri_low_q_region_erfc, line 282
ErfcAxis ==
    /\ op = "erfc" /\ pc = "call"
    /\ scattering_axis' = ScatteringAxis(s_size, s_scale)
    /\ Goto("L284")
    /\ UNCHANGED <<op, lazyArgs, lazyLocals, lazyHist, pdfArgs, params>>

\* damp_ri_low_q_region_erfc, lines 284-285: the name special is read
ErfcDamp ==
    /\ op = "erfc" /\ pc = "L284"
    /\ IF IsBound("special")
       THEN Return(Times(z, ErfcDampingTerm(scattering_axis, scale, offset)))
       ELSE Raise("NameError")
    /\ UNCHANGED <<op, lazyArgs, lazyLocals, lazyHist, pdfArgs, pdfLocals>>

\* scattering_to_signal_lobato lines 87-90, scattering_to_signal_xtables
\* lines 139-142: the first turn of the loop reads the table's name
ScatteringLookup ==
    /\ op \in {"lobato", "xtables"} /\ pc = "call"
    /\ IF elements = <<>>
       THEN params' = <<>> /\ Goto("L92")
       ELSE IF IsBound(TableName(op))
       THEN /\ params' = [i \in 1..Len(elements) |->
                             GlobalValue(TableName(op))[elements[i]]]
            /\ Goto("L92")
       ELSE Raise("NameError") /\ UNCHANGED params
    /\ UNCHANGED <<op, lazyArgs, lazyLocals, lazyHist, pdfArgs, scattering_axis>>

\* lines 92-113 and 144-163
ScatteringSynthesize ==
    /\ op \in {"lobato", "xtables"} /\ pc = "L92"
    /\ LET x == ScatteringAxis(s_size, s_scale)
           sum_squares == SumSquares(op, params, fracs, x, 1)
           square_sum == SquareSum(op, params, fracs, x, 1)
       IN  /\ scattering_axis' = x
           /\ Return(<<BroadcastSignal(N, C, sum_squares), BroadcastSum(N, square_sum)>>)
    /\ UNCHANGED <<op, lazyArgs, lazyLocals, lazyHist, pdfArgs, params>>

Init == /\ pc = "call" /\ exc = NoException /\ result = None
        /\ (InitCalculate \/ InitSliceList \/ InitErfc \/ InitScattering)

Next ==
    \/ MapperRun
    \/ DriverCheckRank \/ Allocate \/ GetSliceList \/ TqdmCreate
    \/ ForSliceChunk \/ SliceLazy \/ Compute \/ BuildImSliceList
    \/ ForImSlice \/ FrameBody1D \/ FrameBody2D \/ DriverReturn
    \/ ErfcAxis \/ ErfcDamp
    \/ ScatteringLookup \/ ScatteringSynthesize

Spec == Init /\ [][Next]_vars

(***************************************************************************)
(* Properties                                                              *)
(***************************************************************************)
\* What a direct loop over every navigation coordinate stores: the function
\* applied to the frame at that coordinate.
DirectLoop ==
    NdArray([coord \in NdIndex(NavShape(dask_array)) |->
                Stored(function,
                       ApplyFunction(function, FrameAt(coord), func_args),
                       return_sig_size)])

\* The positions of the driver at which line 92 has returned.
AfterSliceList ==
    {"L93", "L93_next", "L94", "L95", "L96", "L101", "L102", "L122", "done"}

\* The lists _get_dask_chunk_slice_list has returned in this state.
ReturnedSliceLists ==
    IF op = "slice_list" /\ pc = "done" THEN {result}
    ELSE IF op = "calculate" /\ pc \in AfterSliceList THEN {slice_list}
    ELSE {}

\* c0 + ... + c(j-1), for the 0-based chunk index j
PrefixSum(c, j) == SumSeq(SubSeq(c, 1, j))

IsLazyCall == op \in {"calculate", "slice_list"}

\* C1: on a rank-4 array with a scalar-returning function and
\* return_sig_size = 1 the driver never raises, and the array it returns
\* holds at every navigation coordinate (x, y) the function applied to the
\* frame at (x, y): the array a direct loop over the coordinates builds.
C1_Rank4MatchesDirectLoop ==
    (op = "calculate" /\ Rank(dask_array) = 4
        /\ function \in ScalarFunctions /\ return_sig_size = 1)
    => /\ pc # "raised"
       /\ pc = "done" =>
            /\ result = DirectLoop
            /\ DOMAIN result.data = NdIndex(NavShape(dask_array))

\* A finished rank-4 run over 2 x 2 windows of unequal sizes.
C1_Witness ==
    /\ op = "calculate" /\ pc = "done"
    /\ Len(dask_array.chunks) = 4
    /\ dask_array.chunks[1] = <<1, 2>> /\ dask_array.chunks[2] = <<2, 1>>
    /\ function = "frame_sum" /\ return_sig_size = 1
    /\ Len(calls) = 9
    /\ result.data[<<2, 1>>] = ApplyFunction(function, FrameAt(<<2, 1>>), func_args)

\* C2: on a rank-3 array, with a function whose result fits the output, the
\* driver completes without raising and returns the array in which index i
\* holds the function's result for frame i.
C2_Rank3Completes ==
    (op = "calculate" /\ Rank(dask_array) = 3
        /\ ~StoreRaises(function, return_sig_size))
    => /\ pc # "raised"
       /\ pc = "done" => result = DirectLoop

\* C3: for a rank-3 array whose navigation dimension is split into chunks
\* c0 .. ck the mapper returns k+1 windows, in chunk order, window j being
\* [c0+..+c(j-1), c0+..+cj): the first starts at 0, each starts where the
\* one before it ends, no two overlap and the last ends at sum(ci).
C3_Windows1D ==
    /\ (op = "slice_list" /\ Rank(dask_array) = 3) => pc # "raised"
    /\ \A sl \in ReturnedSliceLists :
        Rank(dask_array) = 3 =>
            LET c == dask_array.chunks[1]
                Start(j) == sl[j].items[1].start
                Stop(j) == sl[j].items[1].stop
            IN  /\ Len(sl) = Len(c)
                /\ \A j \in 1..Len(c) :
                      sl[j] = Tuple(<<Slice(PrefixSum(c, j - 1), PrefixSum(c, j)),
                                      FullSlice, FullSlice>>)
                /\ Start(1) = 0
                /\ \A j \in 1..(Len(c) - 1) : Start(j + 1) = Stop(j)
                /\ \A i, j \in 1..Len(c) : i < j => Stop(i) <= Start(j)
                /\ Stop(Len(c)) = Shape(dask_array)[1]

\* The mapper has returned the windows of the chunks (1, 2).
C3_Witness ==
    /\ op = "slice_list" /\ pc = "done"
    /\ dask_array.chunks = <<<<1, 2>>, SignalChunks, SignalChunks>>
    /\ Len(result) = 2
    /\ result[2].items[1] = Slice(1, 3)

\* C4: for a rank-4 array whose navigation dimensions have m and n chunks
\* the mapper returns m*n windows, the window at list position p*n + q
\* being (outer chunk p, inner chunk q): row-major order.
C4_Windows2DRowMajor ==
    /\ (op = "slice_list" /\ Rank(dask_array) = 4) => pc # "raised"
    /\ \A sl \in ReturnedSliceLists :
        Rank(dask_array) = 4 =>
            LET c0 == dask_array.chunks[1]
                c1 == dask_array.chunks[2]
                m == Len(c0)
                n == Len(c1)
            IN  /\ Len(sl) = m * n
                /\ \A p \in 0..(m - 1), q \in 0..(n - 1) :
                      sl[p * n + q + 1] =
                          Tuple(<<Slice(PrefixSum(c0, p), PrefixSum(c0, p + 1)),
                                  Slice(PrefixSum(c1, q), PrefixSum(c1, q + 1)),
                                  FullSlice, FullSlice>>)

\* The mapper has returned the 2 x 3 windows of the chunks (1, 2) x (1, 1, 1).
C4_Witness ==
    /\ op = "slice_list" /\ pc = "done"
    /\ Len(dask_array.chunks) = 4
    /\ dask_array.chunks[1] = <<1, 2>> /\ dask_array.chunks[2] = <<1, 1, 1>>
    /\ Len(result) = 6
    /\ result[4].items[1] = Slice(1, 3) /\ result[4].items[2] = Slice(0, 1)

\* C5: for every rank other than 3 and 4, ranks 0 and 1 included, the
\* mapper and the driver fail at once with NotImplementedError and return
\* nothing.
C5_EveryOtherRankRaises ==
    (IsLazyCall /\ Rank(dask_array) \notin {3, 4})
    => /\ pc \in {"call", "raised"}
       /\ pc = "raised" => exc = "NotImplementedError"

\* C6: an array of rank 2 or of rank 5 or more makes the mapper and the
\* driver raise NotImplementedError; in the driver nothing has happened by
\* then: no output array, no progress display, no chunk materialized, no
\* call of the per-frame function.
C6_Rank2AndAbove4Raise ==
    (IsLazyCall /\ (Rank(dask_array) = 2 \/ Rank(dask_array) >= 5))
    => /\ pc \in {"call", "raised"}
       /\ pc = "raised" => exc = "NotImplementedError"
       /\ return_data = None
       /\ tqdm_bar = None
       /\ materialized = <<>>
       /\ calls = <<>>

\* The driver has refused a rank-2 array.
C6_Witness ==
    /\ op = "calculate" /\ pc = "raised"
    /\ Rank(dask_array) = 2
    /\ exc = "NotImplementedError"

\* The positions of the driver inside the body of the loop of line 93.
InWindowBody == {"L94", "L95", "L96", "L101", "L102"}

\* C7: show_progressbar governs the progress display: enabled, the display
\* has advanced once for every window whose body has ended (one more turn
\* of the loop counts the window that has just ended); disabled, no display
\* is built.
C7_ProgressFollowsFlag ==
    op = "calculate" =>
        IF show_progressbar
        THEN tqdm_bar # None =>
                /\ tqdm_bar.total = Len(slice_list)
                /\ pc \in InWindowBody => tqdm_bar.n = slice_iter - 1
                /\ pc = "L93_next" => tqdm_bar.n \in {slice_iter - 1, slice_iter}
                /\ pc \in {"L122", "done"} => tqdm_bar.n = Len(slice_list)
        ELSE tqdm_bar = None

\* The materialized chunks a local name of the driver still refers to: the
\* chunk data_slice names, and the chunk the view im is cut from.
HeldChunks ==
    (IF data_slice # None /\ data_slice.kind = "ndarray"
     THEN {data_slice.window} ELSE {})
    \cup (IF im # None THEN {im.base} ELSE {})

\* C8: while the driver runs, the windows are materialized one at a time
\* in list order and at most one materialized chunk is held: the chunk of
\* window j is referred to no more once that of window j+1 is materialized.
C8_OneChunkHeld ==
    (op = "calculate" /\ pc \in AfterSliceList \ {"done"})
    => /\ materialized = SubSeq(slice_list, 1, Len(materialized))
       /\ Cardinality(HeldChunks) <= 1

\* C9: damp_ri_low_q_region_erfc with len(z) = s_size returns, without
\* raising, an array of the shape of z whose element k is z[k] times
\* (erf(scale * s_k - offset) + 1) / 2, with s_k = s_scale * k.
C9_ErfcReturnsDampedArray ==
    op = "erfc" =>
        /\ pc # "raised"
        /\ pc = "done" =>
            /\ Len(result) = Len(z)
            /\ \A k \in 1..Len(z) :
                  result[k] =
                      z[k] * ((ErfMilli(scale * (s_scale * (k - 1)) - offset) + 1000) \div 2)

\* C10: with one element, fracs = [1.0], N = 1 and C = 0 everywhere, both
\* synthesizers return two arrays of shape (grid-x, grid-y, s_size), the
\* second equal at every pixel to the element's own base curve.
C10_SingleElementIsBaseCurve ==
    (op \in {"lobato", "xtables"} /\ Len(elements) = 1 /\ fracs = <<1000>>
        /\ \A gx \in 1..Len(N) : \A gy \in 1..Len(N[gx]) :
              N[gx][gy] = 1 /\ C[gx][gy] = 0)
    => /\ pc # "raised"
       /\ pc = "done" =>
            /\ Len(result) = 2
            /\ \A a \in 1..2 :
                  /\ Len(result[a]) = Len(N)
                  /\ \A gx \in 1..Len(N) :
                        /\ Len(result[a][gx]) = Len(N[gx])
                        /\ \A gy \in 1..Len(N[gx]) : Len(result[a][gx][gy]) = s_size
            /\ \A gx \in 1..Len(N) : \A gy \in 1..Len(N[gx]) :
                  result[2][gx][gy] =
                      BaseCurve(op, params[1], ScatteringAxis(s_size, s_scale))

\* How often v occurs in the sequence s.
Count(s, v) == Cardinality({j \in 1..Len(s) : s[j] = v})

\* C11: in a run of the driver that completes, the per-frame function has
\* been invoked exactly once for each navigation coordinate and each
\* location of the output array has been written exactly once: none twice,
\* none left at its initial zero.
C11_EachLocationOnce ==
    (op = "calculate" /\ pc = "done")
    => \A coord \in DOMAIN result.data :
          /\ Count(calls, coord) = 1
          /\ Count(writes, coord) = 1

\* The same for the completed runs over rank-4 arrays, where every output
\* location is the coordinate of a frame.
Rank4EachLocationOnce ==
    (op = "calculate" /\ pc = "done" /\ Rank(dask_array) = 4)
    => /\ Len(calls) = Cardinality(DOMAIN result.data)
       /\ Len(writes) = Cardinality(DOMAIN result.data)
       /\ \A coord \in DOMAIN result.data :
             /\ Count(calls, coord) = 1
             /\ Count(writes, coord) = 1

====
